---- MODULE Spec2Model ----
(***************************************************************************)
(* Price-alert monitor of the finance agent (src/src/server.ts).           *)
(*                                                                         *)
(* The agent keeps `state.alerts`, a list of price alerts.  The tools      *)
(* setPriceAlert / deleteAlert mutate the list, and the scheduled callback *)
(* Chat.checkPriceAlerts(alertId) polls the price feed, and either marks   *)
(* the alert triggered and appends a notification to the transcript, or    *)
(* reschedules itself.  Every `await` of a handler is a suspension point:  *)
(* a handler is one action per stretch of code between two suspensions.    *)
(***************************************************************************)
EXTENDS Bags, FiniteSets, Integers, Sequences, TLC

\* ---------------------------------------------------------------- bounds
MaxClock == 1        \* setPriceAlert is invoked at the readings 0..MaxClock of Date.now()
MaxAlerts == 2       \* number of setPriceAlert invocations
MaxRedeliver == 1    \* wake-ups the at-least-once timer delivers a second time
MaxInFlight == 2     \* checkPriceAlerts executions suspended at the same time
MaxPrice == 3        \* the price feed reports 0..MaxPrice

\* ------------------------------------------------------- program constants
checkInterval == 300 \* seconds passed to schedule()

\* ---------------------------------------------------------------- inputs
Symbols == {"xyz"}
Targets == {2}
Conditions == {"above", "below"}
Prices == 0..MaxPrice
\* what the price feed does on one query: fetch() throws, response.json()
\* throws, the decoded data carries no regularMarketPrice, or it carries one
FeedOutcomes ==
  {[kind |-> k, price |-> 0] : k \in {"fetch-throws", "json-throws", "undefined"}}
    \cup {[kind |-> "price", price |-> p] : p \in Prices}
NoId == <<>>

VARIABLES
  now,          \* the reading of Date.now()
  alerts,       \* this.state.alerts
  messages,     \* this.messages, the transcript
  schedules,    \* bag of wake-ups requested with schedule() and not yet delivered
  checks,       \* bag of checkPriceAlerts executions suspended at an await
  calls,        \* bag of setPriceAlert executions suspended at `await setState`
  created,      \* number of setPriceAlert invocations so far
  redelivered,  \* number of wake-ups delivered a second time so far
  deleted,      \* ids deleteAlert removed and setPriceAlert has not assigned since
  added,        \* the alerts setPriceAlert has saved so far, as it saved them
  lastOp        \* the handler step taken last, and what it returned

vars == <<now, alerts, messages, schedules, checks, calls, created, redelivered, deleted, added, lastOp>>

\* ------------------------------------------------------- pure functions
\* symbol.toUpperCase()
toUpperCase(s) ==
  CASE s = "xyz" -> "XYZ"
    [] s = "abc" -> "ABC"
    [] OTHER -> s

\* `alert-${Date.now()}`
AlertId(t) == <<"alert-", t>>

\* new Date().toISOString()
toISOString(t) == <<"iso", t>>

AlertIds == {AlertId(t) : t \in 0..MaxClock}

\* the newAlert literal of setPriceAlert
NewAlert(symbol, targetPrice, condition, t) ==
  [id |-> AlertId(t),
   symbol |-> toUpperCase(symbol),
   targetPrice |-> targetPrice,
   condition |-> condition,
   createdAt |-> toISOString(t),
   active |-> TRUE]

\* (a slip: the new alert replaces the collection that was read)
AppendAlertForgetting(as, a) == <<a>>

\* [...alerts, newAlert]
AppendAlert(as, a) == Append(as, a)

\* alerts.find((a) => a.id === alertId): index of the first match, 0 if none
FindIndex(as, alertId) ==
  IF \E i \in 1..Len(as) : as[i].id = alertId
  THEN CHOOSE i \in 1..Len(as) :
         /\ as[i].id = alertId
         /\ \A j \in 1..(i - 1) : as[j].id # alertId
  ELSE 0

\* alerts.filter((a) => a.id !== alertId)
FilterOut(as, alertId) == SelectSeq(as, LAMBDA a : a.id # alertId)

\* (a slip: the triggered alert is rebuilt and loses its target)
MarkTriggeredRebuilding(as, alertId) ==
  [i \in 1..Len(as) |->
     IF as[i].id = alertId
     THEN [as[i] EXCEPT !.active = FALSE, !.targetPrice = 0]
     ELSE as[i]]

\* alerts.map((a) => a.id === alertId ? { ...a, active: false } : a)
MarkTriggered(as, alertId) ==
  [i \in 1..Len(as) |->
     IF as[i].id = alertId THEN [as[i] EXCEPT !.active = FALSE] ELSE as[i]]

\* (a slip: the guard forgets the active flag)
SkipsMissingOnly(as, alertId) == FindIndex(as, alertId) = 0

\* !alert || !alert.active, for alert = alerts.find(...)
Skips(as, alertId) ==
  LET i == FindIndex(as, alertId) IN i = 0 \/ ~as[i].active

\* (a slip: only a missing price is tested for)
FalsyUndefinedOnly(o) == o.kind = "undefined"

\* !currentPrice
Falsy(o) == o.kind = "undefined" \/ o.price = 0

\* (a slip: the comparisons are strict)
TriggeredStrict(alert, currentPrice) ==
  IF alert.condition = "above"
  THEN currentPrice > alert.targetPrice
  ELSE currentPrice < alert.targetPrice

\* the `triggered` expression of checkPriceAlerts
Triggered(alert, currentPrice) ==
  IF alert.condition = "above"
  THEN currentPrice >= alert.targetPrice
  ELSE currentPrice <= alert.targetPrice

\* the record schedule(300, "checkPriceAlerts", alertId) stores
\* (due: the delay has elapsed)
WakeUp(alertId) ==
  [callback |-> "checkPriceAlerts", payload |-> alertId,
   delay |-> checkInterval, due |-> FALSE]

\* the assistant message of a triggered check; alertId records which
\* execution appended it (the text itself carries symbol, condition,
\* target and price)
Notification(alertId, alert, currentPrice) ==
  [role |-> "assistant", kind |-> "PRICE ALERT TRIGGERED",
   alertId |-> alertId, symbol |-> alert.symbol,
   condition |-> alert.condition, targetPrice |-> alert.targetPrice,
   currentPrice |-> currentPrice]

\* [...this.messages, notification]
AppendMessage(ms, m) == Append(ms, m)

\* (a slip: the filter on the active flag is missing)
ListActiveUnfiltered(as) == as

\* alerts.filter((a) => a.active)
ListActive(as) == SelectSeq(as, LAMBDA a : a.active)

\* the object listAlerts builds for one alert
Listed(a) ==
  [id |-> a.id, symbol |-> a.symbol, condition |-> a.condition,
   targetPrice |-> a.targetPrice, createdAt |-> a.createdAt]

\* what listAlerts returns
ListAlertsResult(as) ==
  LET activeAlerts == ListActive(as) IN
    IF Len(activeAlerts) = 0
    THEN [op |-> "listAlerts", out |-> "no active alerts", count |-> 0, value |-> <<>>]
    ELSE [op |-> "listAlerts", out |-> "listed", count |-> Len(activeAlerts),
          value |-> [i \in 1..Len(activeAlerts) |-> Listed(activeAlerts[i])]]

One(x) == SetToBag({x})

\* ---------------------------------------------------------------- Init
Init ==
  /\ now = 0
  /\ alerts = <<>>
  /\ messages = <<>>
  /\ schedules = EmptyBag
  /\ checks = EmptyBag
  /\ calls = EmptyBag
  /\ created = 0
  /\ redelivered = 0
  /\ deleted = {}
  /\ added = {}
  /\ lastOp = [op |-> "init", out |-> "none"]

\* ---------------------------------------------------------------- actions
\* time passes: Date.now() returns a later reading, and the delay of every
\* wake-up requested so far elapses
Elapse(ws) ==
  LET S == BagToSet(ws)
      D == {[w EXCEPT !.due = TRUE] : w \in S}
  IN [d \in D |-> (IF d \in S THEN ws[d] ELSE 0)
                    + (IF [d EXCEPT !.due = FALSE] \in S
                       THEN ws[[d EXCEPT !.due = FALSE]] ELSE 0)]

Tick ==
  /\ now <= MaxClock \/ \E w \in BagToSet(schedules) : ~w.due
  /\ now' = IF now <= MaxClock THEN now + 1 ELSE now
  /\ schedules' = Elapse(schedules)
  /\ UNCHANGED <<alerts, messages, checks, calls, created, redelivered, deleted, added, lastOp>>

\* setPriceAlert.execute up to `await agent.setState(...)`
SetPriceAlert(symbol, targetPrice, condition) ==
  /\ created < MaxAlerts
  /\ now <= MaxClock
  /\ LET newAlert == NewAlert(symbol, targetPrice, condition, now) IN
       /\ alerts' = AppendAlert(alerts, newAlert)
       /\ calls' = calls (+) One([newAlert |-> newAlert])
       /\ lastOp' = [op |-> "setPriceAlert", out |-> "saved"]
       /\ deleted' = deleted \ {newAlert.id}
       /\ added' = added \cup {newAlert}
  /\ created' = created + 1
  /\ UNCHANGED <<now, messages, schedules, checks, redelivered>>

\* (a slip: the first check is scheduled for an id made up anew)
SetPriceAlertScheduleNewId(c) ==
  /\ BagIn(c, calls)
  /\ calls' = calls (-) One(c)
  /\ schedules' = schedules (+) One(WakeUp(AlertId(now)))
  /\ lastOp' = [op |-> "setPriceAlert", out |-> "success"]
  /\ UNCHANGED <<now, alerts, messages, checks, created, redelivered, deleted, added>>

\* setPriceAlert.execute after the await: schedule the first check, return
SetPriceAlertSchedule(c) ==
  /\ BagIn(c, calls)
  /\ calls' = calls (-) One(c)
  /\ schedules' = schedules (+) One(WakeUp(c.newAlert.id))
  /\ lastOp' = [op |-> "setPriceAlert", out |-> "success"]
  /\ UNCHANGED <<now, alerts, messages, checks, created, redelivered, deleted, added>>

\* (a slip: the first check is scheduled although the save failed)
SetPriceAlertFailsScheduling(symbol, targetPrice, condition) ==
  /\ created < MaxAlerts
  /\ now <= MaxClock
  /\ schedules' = schedules (+) One(WakeUp(AlertId(now)))
  /\ lastOp' = [op |-> "setPriceAlert", out |-> "error"]
  /\ UNCHANGED <<now, alerts, messages, checks, calls, created, redelivered, deleted, added>>

\* setPriceAlert.execute when agent.setState throws (the state store could
\* not save): the catch block returns the error text
SetPriceAlertFails(symbol, targetPrice, condition) ==
  /\ created < MaxAlerts
  /\ now <= MaxClock
  /\ lastOp' = [op |-> "setPriceAlert", out |-> "error"]
  /\ UNCHANGED <<now, alerts, messages, schedules, checks, calls, created,
                 redelivered, deleted, added>>

\* listAlerts.execute
ListAlerts ==
  /\ lastOp' = ListAlertsResult(alerts)
  /\ UNCHANGED <<now, alerts, messages, schedules, checks, calls, created,
                 redelivered, deleted, added>>

\* deleteAlert.execute
DeleteAlert(alertId) ==
  LET updatedAlerts == FilterOut(alerts, alertId) IN
    /\ IF Len(alerts) = Len(updatedAlerts)
       THEN /\ alerts' = alerts
            /\ deleted' = deleted
            /\ lastOp' = [op |-> "deleteAlert", out |-> "not found"]
       ELSE /\ alerts' = updatedAlerts
            /\ deleted' = deleted \cup {alertId}
            /\ lastOp' = [op |-> "deleteAlert", out |-> "deleted"]
    /\ UNCHANGED <<now, messages, schedules, checks, calls, created, redelivered, added>>

\* the timer delivers wake-up w: checkPriceAlerts(alertId) up to `await fetch`.
\* again = TRUE: the timer will deliver w once more.
CheckStart(w, again) ==
  /\ BagIn(w, schedules)
  /\ w.due
  /\ BagCardinality(checks) < MaxInFlight
  /\ IF again
     THEN /\ redelivered < MaxRedeliver
          /\ redelivered' = redelivered + 1
          /\ schedules' = schedules
     ELSE /\ redelivered' = redelivered
          /\ schedules' = schedules (-) One(w)
  /\ LET alertId == w.payload IN
       IF Skips(alerts, alertId)
       THEN /\ checks' = checks
            /\ lastOp' = [op |-> "checkPriceAlerts", out |-> "skipped"]
       ELSE /\ checks' = checks (+) One([alertId |-> alertId, alerts |-> alerts,
                                         alert |-> alerts[FindIndex(alerts, alertId)],
                                         pc |-> "fetch", currentPrice |-> 0])
            /\ lastOp' = [op |-> "checkPriceAlerts", out |-> "fetching"]
  /\ UNCHANGED <<now, alerts, messages, calls, created, deleted, added>>

\* (a slip: the catch block retries by rescheduling)
CheckCaughtRetry(c) ==
  /\ checks' = checks (-) One(c)
  /\ schedules' = schedules (+) One(WakeUp(c.alertId))
  /\ lastOp' = [op |-> "checkPriceAlerts", out |-> "error"]
  /\ UNCHANGED alerts

\* (a slip: the error leaves the check, there is no catch block)
CheckUncaught(c) ==
  /\ checks' = checks (-) One(c)
  /\ lastOp' = [op |-> "checkPriceAlerts", out |-> "thrown"]
  /\ UNCHANGED <<alerts, schedules>>

\* catch (error) { console.error(...) }: an awaited call of the try block
\* threw; the check returns normally
CheckCaught(c) ==
  /\ checks' = checks (-) One(c)
  /\ lastOp' = [op |-> "checkPriceAlerts", out |-> "error"]
  /\ UNCHANGED <<alerts, schedules>>

\* if (!currentPrice) return
CheckNoPrice(c, outcome) ==
  /\ checks' = checks (-) One(c)
  /\ lastOp' = [op |-> "checkPriceAlerts", out |-> "no price", kind |-> outcome.kind]
  /\ UNCHANGED <<alerts, schedules>>

\* if (triggered): setState({ alerts: updatedAlerts }), then `await`
CheckMark(c, currentPrice) ==
  /\ alerts' = MarkTriggered(c.alerts, c.alertId)
  /\ checks' = (checks (-) One(c))
                 (+) One([c EXCEPT !.pc = "notify", !.currentPrice = currentPrice])
  /\ lastOp' = [op |-> "checkPriceAlerts", out |-> "marked"]
  /\ UNCHANGED schedules

\* else: this.schedule(300, "checkPriceAlerts", alertId)
CheckReschedule(c) ==
  /\ schedules' = schedules (+) One(WakeUp(c.alertId))
  /\ checks' = checks (-) One(c)
  /\ lastOp' = [op |-> "checkPriceAlerts", out |-> "rescheduled"]
  /\ UNCHANGED alerts

\* checkPriceAlerts from the return of fetch / response.json() up to
\* `await this.setState`, or to its end
CheckFetched(c, outcome) ==
  /\ BagIn(c, checks)
  /\ c.pc = "fetch"
  /\ IF outcome.kind \in {"fetch-throws", "json-throws"} THEN CheckCaught(c)
     ELSE IF Falsy(outcome) THEN CheckNoPrice(c, outcome)
     ELSE IF Triggered(c.alert, outcome.price) THEN CheckMark(c, outcome.price)
     ELSE CheckReschedule(c)
  /\ UNCHANGED <<now, messages, calls, created, redelivered, deleted, added>>

\* checkPriceAlerts when `await this.setState` throws (the state store could
\* not save): the collection is unchanged and the catch block ends the check
CheckMarkFails(c, outcome) ==
  /\ BagIn(c, checks)
  /\ c.pc = "fetch"
  /\ outcome.kind = "price"
  /\ ~Falsy(outcome)
  /\ Triggered(c.alert, outcome.price)
  /\ CheckCaught(c)
  /\ UNCHANGED <<now, messages, calls, created, redelivered, deleted, added>>

\* checkPriceAlerts when `await this.saveMessages` throws: nothing is
\* appended to the transcript and the catch block ends the check
CheckNotifyFails(c) ==
  /\ BagIn(c, checks)
  /\ c.pc = "notify"
  /\ CheckCaught(c)
  /\ UNCHANGED <<now, messages, calls, created, redelivered, deleted, added>>

\* checkPriceAlerts after `await this.setState`: saveMessages, return
CheckNotify(c) ==
  /\ BagIn(c, checks)
  /\ c.pc = "notify"
  /\ messages' = AppendMessage(messages, Notification(c.alertId, c.alert, c.currentPrice))
  /\ checks' = checks (-) One(c)
  /\ lastOp' = [op |-> "checkPriceAlerts", out |-> "notified"]
  /\ UNCHANGED <<now, alerts, schedules, calls, created, redelivered, deleted, added>>

Next ==
  \/ Tick
  \/ \E s \in Symbols, t \in Targets, cnd \in Conditions : SetPriceAlert(s, t, cnd)
  \/ \E c \in BagToSet(calls) : SetPriceAlertSchedule(c)
  \/ \E s \in Symbols, t \in Targets, cnd \in Conditions : SetPriceAlertFails(s, t, cnd)
  \/ ListAlerts
  \/ \E id \in AlertIds : DeleteAlert(id)
  \/ \E w \in BagToSet(schedules) : CheckStart(w, FALSE)
  \/ \E c \in BagToSet(checks), o \in FeedOutcomes : CheckFetched(c, o)
  \/ \E c \in BagToSet(checks) : CheckNotify(c)
  \/ \E c \in BagToSet(checks), o \in FeedOutcomes : CheckMarkFails(c, o)
  \/ \E c \in BagToSet(checks) : CheckNotifyFails(c)

\* the timer delivers every wake-up once
Spec == Init /\ [][Next]_vars

\* the timer delivers at least once: a wake-up may be delivered again
NextAtLeastOnce ==
  \/ Next
  \/ \E w \in BagToSet(schedules) : CheckStart(w, TRUE)

SpecAtLeastOnce == Init /\ [][NextAtLeastOnce]_vars

\* only setPriceAlert is invoked (the tool calls of one chat turn run
\* concurrently and suspend at their await)
NextCreate ==
  \/ Tick
  \/ \E s \in Symbols, t \in Targets, cnd \in Conditions : SetPriceAlert(s, t, cnd)
  \/ \E c \in BagToSet(calls) : SetPriceAlertSchedule(c)

SpecCreate == Init /\ [][NextCreate]_vars

\* the reports of a feed that always returns a non-zero price for which the
\* condition of every alert holds
Satisfying ==
  {o \in FeedOutcomes :
     /\ o.kind = "price"
     /\ o.price # 0
     /\ \A cnd \in Conditions, t \in Targets :
          Triggered([condition |-> cnd, targetPrice |-> t], o.price)}

\* alerts are created and checked, none is deleted; the feed, the state
\* store and saveMessages do not fail
NextLive ==
  \/ Tick
  \/ \E s \in Symbols, t \in Targets, cnd \in Conditions : SetPriceAlert(s, t, cnd)
  \/ \E c \in BagToSet(calls) : SetPriceAlertSchedule(c)
  \/ \E w \in BagToSet(schedules) : CheckStart(w, FALSE)
  \/ \E c \in BagToSet(checks), o \in Satisfying : CheckFetched(c, o)
  \/ \E c \in BagToSet(checks) : CheckNotify(c)

\* time passes, the timer delivers every wake-up it holds, and every
\* suspended execution resumes
FairLive ==
  /\ WF_vars(Tick)
  /\ \A id \in AlertIds : SF_vars(CheckStart([WakeUp(id) EXCEPT !.due = TRUE], FALSE))
  /\ WF_vars(\E c \in BagToSet(calls) : SetPriceAlertSchedule(c))
  /\ WF_vars(\E c \in BagToSet(checks), o \in Satisfying : CheckFetched(c, o))
  /\ WF_vars(\E c \in BagToSet(checks) : CheckNotify(c))

SpecLive == Init /\ [][NextLive]_vars /\ FairLive

\* ------------------------------------------------------------ measures
\* number of notifications in the transcript appended by checks of alertId
Notified(ms, alertId) ==
  Cardinality({i \in 1..Len(ms) :
                 ms[i].kind = "PRICE ALERT TRIGGERED" /\ ms[i].alertId = alertId})

\* number of wake-ups pending for alertId
Pending(ws, alertId) ==
  CopiesIn(WakeUp(alertId), ws) + CopiesIn([WakeUp(alertId) EXCEPT !.due = TRUE], ws)

\* number of checkPriceAlerts executions in progress for alertId
Checking(cs, alertId) ==
  LET S == {c \in BagToSet(cs) : c.alertId = alertId}
  IN BagCardinality([c \in S |-> cs[c]])

\* number of setPriceAlert executions in progress that assigned alertId
Creating(cl, alertId) ==
  LET S == {c \in BagToSet(cl) : c.newAlert.id = alertId}
  IN BagCardinality([c \in S |-> cl[c]])

\* number of stored alerts with this id
Stored(as, alertId) == Cardinality({i \in 1..Len(as) : as[i].id = alertId})

StoredActive(as, alertId) == \E i \in 1..Len(as) : as[i].id = alertId /\ as[i].active
StoredInactive(as, alertId) == \E i \in 1..Len(as) : as[i].id = alertId /\ ~as[i].active

Throws == {o \in FeedOutcomes : o.kind \in {"fetch-throws", "json-throws"}}

\* ------------------------------------------------------------ claims

\* C1: a notification is emitted exactly once per triggered alert: the
\* transcript never holds a second notification for the same alert id, and
\* holds one as soon as a check that marked the alert triggered has finished.
C1_NotifiedExactlyOnce ==
  \A id \in AlertIds :
    /\ Notified(messages, id) <= 1
    /\ (StoredInactive(alerts, id) /\ Checking(checks, id) = 0)
         => Notified(messages, id) >= 1

\* C2: for every alert id, at most one wake-up is pending at any time.
C2_AtMostOnePending ==
  \A id \in AlertIds : Pending(schedules, id) <= 1

\* C3: no step changes the active flag of a stored alert from false to true.
C3_NeverReactivated ==
  [][\A id \in AlertIds :
       (StoredInactive(alerts, id) /\ ~StoredActive(alerts, id))
         => ~StoredActive(alerts', id)]_vars

\* C4: once deleteAlert has removed an alert, no notification for its id is
\* delivered afterwards.
C4_NoNotificationAfterDelete ==
  [][\A id \in deleted : Notified(messages', id) <= Notified(messages, id)]_vars

\* C5: the write of a check keeps every alert of the collection that is not
\* the one it checks, also an alert added while the check awaited the price.
C5_CheckKeepsOtherAlerts ==
  [][\A c \in BagToSet(checks), o \in FeedOutcomes :
       CheckFetched(c, o)
         => \A i \in 1..Len(alerts) :
              alerts[i].id # c.alertId
                => \E j \in 1..Len(alerts') : alerts'[j] = alerts[i]]_vars

\* C6: no two alerts of the collection have the same id.
C6_UniqueIds ==
  \A i, j \in 1..Len(alerts) : i # j => alerts[i].id # alerts[j].id

\* C7: a wake-up delivered for an id that is missing from the collection or
\* stored inactive is a no-op: no check is started, no wake-up is requested,
\* no notification is delivered and the collection is unchanged.
C7_StaleWakeUpIsNoOp ==
  [][\A w \in BagToSet(schedules), again \in BOOLEAN :
       (CheckStart(w, again) /\ ~StoredActive(alerts, w.payload))
         => /\ alerts' = alerts
            /\ messages' = messages
            /\ checks' = checks
            /\ \A id \in AlertIds : Pending(schedules', id) <= Pending(schedules, id)]_vars

\* a wake-up pending for a deleted alert has fired and was skipped
C7_Witness ==
  /\ lastOp = [op |-> "checkPriceAlerts", out |-> "skipped"]
  /\ deleted # {}
  /\ alerts = <<>>
  /\ schedules = EmptyBag

\* C8: overlapping setPriceAlert invocations all persist: every invocation,
\* suspended at its await or finished, has its alert in the collection, and
\* the collection holds one alert per invocation.
C8_ConcurrentCreatesPersist ==
  /\ Len(alerts) = created
  /\ \A c \in BagToSet(calls) :
       Cardinality({i \in 1..Len(alerts) : alerts[i] = c.newAlert}) >= calls[c]
  /\ \A id \in AlertIds :
       Stored(alerts, id) = Creating(calls, id) + Pending(schedules, id)

\* two invocations are suspended at their await and both alerts are stored
C8_Witness ==
  /\ BagCardinality(calls) = 2
  /\ Len(alerts) = 2

\* C9: every stored active alert keeps being checked: a wake-up for it is
\* pending or a check of it is in progress (or the setPriceAlert that
\* created it has not yet returned).
C9_ActiveAlertIsMonitored ==
  \A i \in 1..Len(alerts) :
    alerts[i].active
      => \/ Pending(schedules, alerts[i].id) > 0
         \/ Checking(checks, alerts[i].id) > 0
         \/ Creating(calls, alerts[i].id) > 0

\* C10: when the price feed throws during a check, the check ends without
\* rescheduling, delivers nothing and leaves the collection unchanged; an
\* alert that was stored active and had no other wake-up, check or create
\* in progress is then dormant: active, with nothing pending.
C10_FeedFailureLeavesDormant ==
  [][\A c \in BagToSet(checks), o \in Throws :
       CheckFetched(c, o)
         => /\ alerts' = alerts
            /\ messages' = messages
            /\ schedules' = schedules
            /\ checks' = checks (-) One(c)
            /\ (/\ StoredActive(alerts, c.alertId)
                /\ Pending(schedules, c.alertId) = 0
                /\ Checking(checks, c.alertId) = 1)
                 => /\ StoredActive(alerts', c.alertId)
                    /\ Pending(schedules', c.alertId) = 0
                    /\ Checking(checks', c.alertId) = 0]_vars

\* the only alert is dormant after a failed check
C10_Witness ==
  /\ lastOp = [op |-> "checkPriceAlerts", out |-> "error"]
  /\ Len(alerts) = 1
  /\ alerts[1].active
  /\ Pending(schedules, alerts[1].id) = 0
  /\ checks = EmptyBag
  /\ calls = EmptyBag

\* C11: for every condition, target and reported price, a check that gets
\* the price marks the alert triggered exactly when the condition is above
\* and price >= target, or the condition is below and price <= target.
C11_TriggeredIffInclusive ==
  [][\A c \in BagToSet(checks), o \in FeedOutcomes :
       (o.kind = "price" /\ CheckFetched(c, o))
         => ((lastOp' = [op |-> "checkPriceAlerts", out |-> "marked"])
               <=> \/ c.alert.condition = "above" /\ o.price >= c.alert.targetPrice
                   \/ c.alert.condition = "below" /\ o.price <= c.alert.targetPrice)]_vars

C13_TerminalIsAbsorbing ==
  [][\A c \in BagToSet(checks), o \in FeedOutcomes :
       (/\ CheckFetched(c, o)
        /\ \/ c.alertId \in deleted
           \/ StoredInactive(alerts, c.alertId) /\ ~StoredActive(alerts, c.alertId))
         => Pending(schedules', c.alertId) <= Pending(schedules, c.alertId)]_vars

\* C14: an alert stored as triggered never reappears in what listAlerts
\* returns.
C14_TriggeredNeverListedAgain ==
  [][\A id \in AlertIds :
       (StoredInactive(alerts, id) /\ ~StoredActive(alerts, id))
         => \A k \in 1..Len(ListAlertsResult(alerts').value) :
              ListAlertsResult(alerts').value[k].id # id]_vars

\* C15: deleteAlert(id) on a collection holding the id reports it deleted,
\* shrinks the collection by exactly one and leaves no alert with the id (a
\* second call reports not found); on a collection without the id it
\* reports not found and leaves the collection unchanged.
C15_DeleteTwice ==
  [][\A id \in AlertIds :
       DeleteAlert(id)
         => IF Stored(alerts, id) > 0
            THEN /\ lastOp' = [op |-> "deleteAlert", out |-> "deleted"]
                 /\ Len(alerts') = Len(alerts) - 1
                 /\ Stored(alerts', id) = 0
            ELSE /\ lastOp' = [op |-> "deleteAlert", out |-> "not found"]
                 /\ alerts' = alerts]_vars

\* C16: when setPriceAlert returns success, the new alert is stored active
\* and exactly one wake-up for its id is pending, requested for
\* checkInterval seconds ahead.
C16_PendingAfterCreate ==
  [][\A c \in BagToSet(calls) :
       SetPriceAlertSchedule(c)
         => /\ \E i \in 1..Len(alerts') : alerts'[i] = c.newAlert /\ alerts'[i].active
            /\ Pending(schedules', c.newAlert.id) = 1
            /\ CopiesIn(WakeUp(c.newAlert.id), schedules') = 1]_vars

\* v lists, in insertion order, exactly the stored alerts with active = true
IsListOfActive(v, as) ==
  LET A == {i \in 1..Len(as) : as[i].active} IN
    /\ Len(v) = Cardinality(A)
    /\ \E f \in [1..Len(v) -> A] :
         /\ \A k, l \in 1..Len(v) : k < l => f[k] < f[l]
         /\ \A k \in 1..Len(v) :
              /\ v[k].id = as[f[k]].id
              /\ v[k].symbol = as[f[k]].symbol
              /\ v[k].condition = as[f[k]].condition
              /\ v[k].targetPrice = as[f[k]].targetPrice
              /\ v[k].createdAt = as[f[k]].createdAt

\* C17: listAlerts returns exactly the stored active alerts in insertion
\* order, and changes neither the collection, nor the transcript, nor the
\* pending wake-ups.
C17_ListAlertsIsPure ==
  [][(lastOp'.op = "listAlerts" /\ ~Tick)
       => /\ alerts' = alerts
          /\ messages' = messages
          /\ schedules' = schedules
          /\ IsListOfActive(lastOp'.value, alerts)
          /\ lastOp'.count = Len(lastOp'.value)]_vars

\* listAlerts returned one alert of a collection of two
C17_Witness ==
  /\ lastOp.op = "listAlerts"
  /\ Len(alerts) = 2
  /\ Len(lastOp.value) = 1
  /\ \E i \in 1..2 : ~alerts[i].active

\* C18: when checks of two different alerts have both delivered their
\* notification and no check is in progress, both alerts are stored inactive
\* and each has exactly one notification.
C18_ConcurrentChecksBothInactive ==
  \A a, b \in AlertIds :
    (/\ a # b
     /\ checks = EmptyBag
     /\ Notified(messages, a) >= 1 /\ Notified(messages, b) >= 1
     /\ a \notin deleted /\ b \notin deleted)
      => /\ ~StoredActive(alerts, a) /\ ~StoredActive(alerts, b)
         /\ Notified(messages, a) = 1 /\ Notified(messages, b) = 1

\* C19: for every alert id, at most one execution of checkPriceAlerts is in
\* progress at any time.
C19_AtMostOneCheckPerAlert ==
  \A id \in AlertIds : Checking(checks, id) <= 1

\* C20: when the save fails during setPriceAlert, the caller gets the error,
\* the collection is as before and no wake-up is requested.
C20_FailedCreateNotCommitted ==
  [][(lastOp' = [op |-> "setPriceAlert", out |-> "error"] /\ ~Tick)
       => /\ alerts' = alerts
          /\ schedules' = schedules
          /\ calls' = calls
          /\ messages' = messages]_vars

\* a setPriceAlert failed after another one had succeeded: one alert is
\* stored and one wake-up is pending
C20_Witness ==
  /\ lastOp = [op |-> "setPriceAlert", out |-> "error"]
  /\ Len(alerts) = 1
  /\ BagCardinality(schedules) = 1
  /\ calls = EmptyBag

\* C21: a check never lets an error out: when the price fetch, the decoding
\* of the response, the save of the collection or the delivery of the
\* notification fails, the check ends there, returning normally, and the
\* failed call has changed nothing.
C21_CheckCatchesEveryError ==
  [][\A c \in BagToSet(checks) :
       ((\E o \in Throws : CheckFetched(c, o))
          \/ (\E o \in FeedOutcomes : CheckMarkFails(c, o))
          \/ CheckNotifyFails(c))
         => /\ lastOp' = [op |-> "checkPriceAlerts", out |-> "error"]
            /\ checks' = checks (-) One(c)
            /\ alerts' = alerts
            /\ messages' = messages
            /\ schedules' = schedules]_vars

\* the delivery of the notification failed: the alert is stored inactive,
\* the transcript has no notification for it and the check has returned
C21_Witness ==
  /\ lastOp = [op |-> "checkPriceAlerts", out |-> "error"]
  /\ checks = EmptyBag
  /\ \E i \in 1..Len(alerts) :
       ~alerts[i].active /\ Notified(messages, alerts[i].id) = 0

\* C22: an execution of checkPriceAlerts requests at most one wake-up. It
\* requests one exactly when the alert was stored active at its start, the
\* feed returned a price and the condition is false for that price; the
\* collection and the transcript are then unchanged.
C22_OneWakeUpIffNotTriggered ==
  [][/\ \A w \in BagToSet(schedules) :
          CheckStart(w, FALSE) => schedules' = schedules (-) One(w)
     /\ \A c \in BagToSet(checks), o \in FeedOutcomes :
          CheckFetched(c, o)
            => IF o.kind = "price" /\ ~Triggered(c.alert, o.price)
               THEN /\ schedules' = schedules (+) One(WakeUp(c.alertId))
                    /\ alerts' = alerts
                    /\ messages' = messages
               ELSE schedules' = schedules
     /\ \A c \in BagToSet(checks) :
          (CheckNotify(c) \/ CheckNotifyFails(c)
             \/ \E o \in FeedOutcomes : CheckMarkFails(c, o))
            => schedules' = schedules]_vars

\* C23: whenever a check appends the notification for an alert id to the
\* transcript, the collection holds that alert with active = FALSE.
C23_InactiveWhenNotified ==
  [][\A c \in BagToSet(checks) :
       CheckNotify(c) => StoredInactive(alerts, c.alertId)]_vars

\* C24: the fields id, symbol, targetPrice, condition and createdAt of every
\* stored alert are the ones setPriceAlert assigned when it saved the alert:
\* but for its active flag, a stored alert is an alert as it was created.
C24_FieldsAreImmutable ==
  \A i \in 1..Len(alerts) : [alerts[i] EXCEPT !.active = TRUE] \in added

\* an alert created with its fields as given is stored marked triggered
\* after another alert was created
C24_Witness ==
  /\ Len(alerts) = 2
  /\ ~alerts[1].active
  /\ alerts[1].id # alerts[2].id
  /\ alerts[1].condition # alerts[2].condition
  /\ Notified(messages, alerts[1].id) = 1

\* C25: once deleteAlert has removed an alert, no alert with its id is in
\* the collection again (unless setPriceAlert assigns the id anew).
C25_DeletedStaysOut ==
  \A id \in deleted : Stored(alerts, id) = 0

\* C26: a check that is reported the price 0 ends as after a feed failure,
\* whatever the condition and target of the alert: the collection, the
\* transcript and the schedule are unchanged.
C26_ZeroPriceIsNoPrice ==
  [][\A c \in BagToSet(checks), o \in FeedOutcomes :
       (CheckFetched(c, o) /\ o.kind = "price" /\ o.price = 0)
         => /\ alerts' = alerts
            /\ messages' = messages
            /\ schedules' = schedules
            /\ checks' = checks (-) One(c)]_vars

\* checks of an above alert and of a below alert were reported the price 0:
\* both are stored active, with no wake-up and no check left
C26_Witness ==
  /\ lastOp = [op |-> "checkPriceAlerts", out |-> "no price", kind |-> "price"]
  /\ \E i, j \in 1..Len(alerts) :
       /\ alerts[i].condition = "above" /\ alerts[i].active
       /\ alerts[j].condition = "below" /\ alerts[j].active
  /\ schedules = EmptyBag
  /\ checks = EmptyBag
  /\ calls = EmptyBag
  /\ messages = <<>>

\* C27: when the delivery of the notification fails after the check saved
\* the alert as inactive, the check ends without requesting a wake-up and
\* with the alert, unless deleteAlert removed it, stored with active = FALSE.
C27_FailedDeliveryLeavesInactive ==
  [][\A c \in BagToSet(checks) :
       CheckNotifyFails(c)
         => /\ schedules' = schedules
            /\ c.alertId \notin deleted
                 => /\ StoredInactive(alerts', c.alertId)
                    /\ ~StoredActive(alerts', c.alertId)]_vars

\* C28: when no alert is deleted, the timer delivers every wake-up and the
\* feed always returns a non-zero price for which the condition holds, an
\* alert that setPriceAlert has saved is eventually stored inactive and its
\* notification is eventually in the transcript.
C28_EventuallyTriggered ==
  \A id \in AlertIds :
    /\ (Creating(calls, id) > 0) ~> StoredInactive(alerts, id)
    /\ (Creating(calls, id) > 0) ~> (Notified(messages, id) >= 1)

\* C29: every wake-up is requested for an id that setPriceAlert had added
\* to the collection before the request.
C29_WakeUpTargetsAddedId ==
  [][\A id \in AlertIds :
       Pending(schedules', id) > Pending(schedules, id)
         => \E a \in added : a.id = id]_vars

\* a check rescheduled an alert: after the first wake-up of the alert was
\* delivered, a wake-up is pending for it again
C29_Witness ==
  /\ lastOp = [op |-> "checkPriceAlerts", out |-> "rescheduled"]
  /\ \E id \in AlertIds : Pending(schedules, id) = 1 /\ StoredActive(alerts, id)
====
